---- MODULE Spec2Model ----
(***************************************************************************)
(* A model of trakt-watch (src/trakt_watch/__main__.py): the URL resolver  *)
(* _parse_url_to_input, the interactive picker _pick_item, the search      *)
(* resolver _search_trakt and the history scan of the progress command.    *)
(*                                                                         *)
(* Python strings are modelled as sequences of one-character strings, so   *)
(* that splitting, stripping, formatting and integer parsing are computed  *)
(* and not assumed.                                                        *)
(***************************************************************************)
EXTENDS Integers, Sequences, FiniteSets, TLC

(***************************************************************************)
(* Strings                                                                 *)
(***************************************************************************)

\* Characters str.strip() removes (the model's alphabet holds the space only).
Whitespace == {" "}

Digits == {"0", "1", "2", "3", "4", "5", "6", "7", "8", "9"}

\* Characters a URL scheme may hold (letters of the model's alphabet).
SchemeChars ==
    {"a", "b", "c", "d", "e", "f", "g", "h", "i", "j", "k", "l", "m",
     "n", "o", "p", "q", "r", "s", "t", "u", "v", "w", "x", "y", "z"}

\* s[i..j], empty when j < i.
Slice(s, i, j) == SubSeq(s, i, j)

\* The index of the first character of s that is in set cs, or Len(s)+1.
RECURSIVE FindFrom(_, _, _)
FindFrom(s, cs, i) ==
    IF i > Len(s) THEN Len(s) + 1
    ELSE IF s[i] \in cs THEN i
    ELSE FindFrom(s, cs, i + 1)

\* str.lstrip()
RECURSIVE LStrip(_)
LStrip(s) ==
    IF s # <<>> /\ Head(s) \in Whitespace THEN LStrip(Tail(s)) ELSE s

\* str.rstrip()
RECURSIVE RStrip(_)
RStrip(s) ==
    IF s # <<>> /\ s[Len(s)] \in Whitespace
    THEN RStrip(Slice(s, 1, Len(s) - 1))
    ELSE s

\* str.strip()
Strip(s) == LStrip(RStrip(s))

\* The pieces of s from index i on, cut at each sep.
RECURSIVE SplitFrom(_, _, _)
SplitFrom(s, sep, i) ==
    LET j == FindFrom(s, {sep}, i)
    IN  IF j > Len(s) THEN <<Slice(s, i, Len(s))>>
        ELSE <<Slice(s, i, j - 1)>> \o SplitFrom(s, sep, j + 1)

\* str.split(sep) for a one-character sep: always at least one piece.
Split(s, sep) == SplitFrom(s, sep, 1)

\* sep.join(pieces)
RECURSIVE Join(_, _)
Join(pieces, sep) ==
    IF pieces = <<>> THEN <<>>
    ELSE IF Len(pieces) = 1 THEN pieces[1]
    ELSE pieces[1] \o sep \o Join(Tail(pieces), sep)

DigitValue(c) ==
    CASE c = "0" -> 0 [] c = "1" -> 1 [] c = "2" -> 2 [] c = "3" -> 3
      [] c = "4" -> 4 [] c = "5" -> 5 [] c = "6" -> 6 [] c = "7" -> 7
      [] c = "8" -> 8 [] c = "9" -> 9

DigitChar(d) ==
    CASE d = 0 -> "0" [] d = 1 -> "1" [] d = 2 -> "2" [] d = 3 -> "3"
      [] d = 4 -> "4" [] d = 5 -> "5" [] d = 6 -> "6" [] d = 7 -> "7"
      [] d = 8 -> "8" [] d = 9 -> "9"

\* The value of a non-empty digit string, most significant digit first.
RECURSIVE DigitsValue(_)
DigitsValue(s) ==
    IF s = <<>> THEN 0
    ELSE 10 * DigitsValue(Slice(s, 1, Len(s) - 1)) + DigitValue(s[Len(s)])

AllDigits(s) == s # <<>> /\ \A i \in 1..Len(s) : s[i] \in Digits

\* Whether Python's int(s) accepts s: surrounding whitespace, an optional
\* sign, then decimal digits.
IsPyInt(s) ==
    LET t == Strip(s)
    IN  IF t # <<>> /\ Head(t) \in {"+", "-"}
        THEN AllDigits(Tail(t))
        ELSE AllDigits(t)

\* Python's int(s) for a string it accepts.
PyInt(s) ==
    LET t == Strip(s)
    IN  IF Head(t) = "-" THEN 0 - DigitsValue(Tail(t))
        ELSE IF Head(t) = "+" THEN DigitsValue(Tail(t))
        ELSE DigitsValue(t)

\* Python's str(n) of a natural number.
RECURSIVE NatStr(_)
NatStr(n) ==
    IF n < 10 THEN <<DigitChar(n)>>
    ELSE NatStr(n \div 10) \o <<DigitChar(n % 10)>>

\* Python's str(n) of an integer, as an f-string formats it.
IntStr(n) == IF n < 0 THEN <<"-">> \o NatStr(0 - n) ELSE NatStr(n)

(***************************************************************************)
(* String constants of the program                                         *)
(***************************************************************************)

kMovies == <<"m", "o", "v", "i", "e", "s">>
kShows == <<"s", "h", "o", "w", "s">>
kSeasons == <<"s", "e", "a", "s", "o", "n", "s">>
kEpisodes == <<"e", "p", "i", "s", "o", "d", "e", "s">>
kTraktHost == <<"t", "r", "a", "k", "t", ".", "t", "v">>
kHttps == <<"h", "t", "t", "p", "s", ":", "/", "/">>
kSlash == <<"/">>

(***************************************************************************)
(* State                                                                   *)
(***************************************************************************)

VARIABLES
    pc,         \* the program's position
    segs,       \* the raw path segments of the URL being given
    url,        \* the url argument of _parse_url_to_input
    prts,       \* _parse_url_to_input's list prts
    inp,        \* what _parse_url_to_input returned or raised, or None
    warned,     \* whether the netloc warning was printed
    ref,        \* the reference a URL is built from, or None
    items,              \* _pick_item's items
    show_urls_default,  \* _pick_item's show_urls_default
    show_urls,          \* _pick_item's show_urls
    choice,             \* _pick_item's choice
    user_input,         \* the line the last prompt of _pick_item read
    rendered,           \* the flag the last show_options call was given
    reported,           \* what the last line read made the picker print
    picked,             \* what _pick_item returned, or None
    renders,            \* how often show_options was called
    lines,              \* how many lines the picker prompt has read
    toggles,            \* how many of them were "u"
    cmd,        \* the command run, or None
    opts,       \* the command's options
    pressed,    \* _search_trakt's pressed
    media_type, \* _search_trakt's media_type
    data,       \* the history page a command fetched, or None
    prog,       \* progress's dict prog, as its (key, value) items in order
    next_data,  \* progress's next_data, or None
    trace,      \* what was printed, prompted and requested, in order
    outcome     \* how the command ended, or "running"

urlVars == <<segs, url, prts, inp, warned>>

pickVars ==
    <<items, show_urls_default, show_urls, choice, user_input, rendered,
      reported, picked, renders, lines, toggles>>

cmdVars == <<cmd, opts, pressed, media_type, trace, outcome>>

histVars == <<data, prog, next_data>>

vars == <<pc, urlVars, ref, pickVars, cmdVars, histVars>>

None == [kind |-> "None"]

(***************************************************************************)
(* MovieId, EpisodeId, TVShowId (lines 51-86) and the ValueError raised    *)
(***************************************************************************)

MovieId(id) == [kind |-> "MovieId", id |-> id]

EpisodeId(id, season, episode) ==
    [kind |-> "EpisodeId", id |-> id, season |-> season, episode |-> episode]

TVShowId(id) == [kind |-> "TVShowId", id |-> id]

\* why: "parts" for "Invalid URL parts", "int" for int()'s invalid literal.
ValueError(why) == [kind |-> "ValueError", why |-> why]

IsInput(r) == r.kind \in {"MovieId", "EpisodeId", "TVShowId"}

(***************************************************************************)
(* urllib.parse.urlsplit, as far as _parse_url_to_input reads it           *)
(***************************************************************************)

\* The scheme ends at the first ":" when only scheme characters precede it.
SchemeEnd(u) ==
    LET c == FindFrom(u, {":"}, 1)
    IN  IF c > 1 /\ c <= Len(u) /\ \A i \in 1..(c - 1) : u[i] \in SchemeChars
        THEN c
        ELSE 0

\* The netloc follows "//" up to the first "/", "?" or "#"; the path runs
\* from there to the first "?" (query) or "#" (fragment).
Urlsplit(u) ==
    LET c == SchemeEnd(u)
        hasNetloc == Len(u) >= c + 2 /\ u[c + 1] = "/" /\ u[c + 2] = "/"
        e == IF hasNetloc THEN FindFrom(u, {"/", "?", "#"}, c + 3) ELSE c + 1
    IN  [netloc |-> IF hasNetloc THEN Slice(u, c + 3, e - 1) ELSE <<>>,
         path |-> Slice(u, e, FindFrom(u, {"?", "#"}, e) - 1)]

(***************************************************************************)
(* _parse_url_to_input                                                     *)
(***************************************************************************)

\* Line 147: [u.strip() for u in parts.path.split("/") if u.strip()]
RECURSIVE StripNonEmpty(_)
StripNonEmpty(pieces) ==
    IF pieces = <<>> THEN <<>>
    ELSE LET u == Strip(Head(pieces))
         IN  (IF u # <<>> THEN <<u>> ELSE <<>>) \o StripNonEmpty(Tail(pieces))

PathParts(path) == StripNonEmpty(Split(path, "/"))

\* MakeEpisodeId, had a failing int() been caught and the show returned.
MakeEpisodeIdLenient(id, season, episode) ==
    IF IsPyInt(season) /\ IsPyInt(episode)
    THEN EpisodeId(id, PyInt(season), PyInt(episode))
    ELSE TVShowId(id)

\* Line 153: EpisodeId(id, int(season), int(episode)); int() raises ValueError.
MakeEpisodeId(id, season, episode) ==
    IF IsPyInt(season) /\ IsPyInt(episode)
    THEN EpisodeId(id, PyInt(season), PyInt(episode))
    ELSE ValueError("int")

IsMovieShape(ps) == Len(ps) >= 2 /\ ps[1] = kMovies

IsEpisodeShape(ps) ==
    /\ Len(ps) >= 6
    /\ ps[1] = kShows
    /\ ps[3] = kSeasons
    /\ ps[5] = kEpisodes

IsShowShape(ps) == Len(ps) >= 2 /\ ps[1] = kShows

\* MatchParts, had the show case been written before the episode case.
MatchPartsShowFirst(ps) ==
    IF IsMovieShape(ps) THEN MovieId(ps[2])
    ELSE IF IsShowShape(ps) THEN TVShowId(ps[2])
    ELSE IF IsEpisodeShape(ps) THEN MakeEpisodeId(ps[2], ps[4], ps[6])
    ELSE ValueError("parts")

\* MatchParts, had the show case been ["shows", id] with no *_ tail.
MatchPartsShowExact(ps) ==
    IF IsMovieShape(ps) THEN MovieId(ps[2])
    ELSE IF IsEpisodeShape(ps)
    THEN (IF IsPyInt(ps[4]) /\ IsPyInt(ps[6])
          THEN EpisodeId(ps[2], PyInt(ps[4]), PyInt(ps[6]))
          ELSE ValueError("int"))
    ELSE IF Len(ps) = 2 /\ ps[1] = kShows THEN TVShowId(ps[2])
    ELSE ValueError("parts")

\* Lines 149-157: the match statement, first matching case wins.
MatchParts(ps) ==
    IF Len(ps) >= 2 /\ ps[1] = kMovies
    THEN MovieId(ps[2])
    ELSE IF /\ Len(ps) >= 6
            /\ ps[1] = kShows
            /\ ps[3] = kSeasons
            /\ ps[5] = kEpisodes
    THEN MakeEpisodeId(ps[2], ps[4], ps[6])
    ELSE IF IsShowShape(ps)
    THEN TVShowId(ps[2])
    ELSE ValueError("parts")

\* Line 140: the warning is printed when the netloc is not trakt.tv.
NetlocWarning(parts) == parts.netloc # kTraktHost

\* What _parse_url_to_input(u) returns or raises.
ParseUrlToInput(u) == MatchParts(PathParts(Urlsplit(u).path))

(***************************************************************************)
(* SpecUrl: _parse_url_to_input on the URLs of a bounded set               *)
(***************************************************************************)

\* The most raw path segments a URL of SpecUrl holds.
MaxSegs == 6

\* The raw segments a URL is made of: the four keywords, an integer with
\* surrounding blanks, and a blank segment.
RawSegments ==
    {kMovies, kShows, kSeasons, kEpisodes, <<" ", "2", " ">>, <<" ">>}

\* What precedes the path: the https scheme and the expected host.
UrlPrefix == kHttps \o kTraktHost

\* The URL whose path holds the raw segments ss, each after a "/".
BuildUrl(prefix, ss) == prefix \o Join(<<<<>>>> \o ss, kSlash)

IdleUrl ==
    segs = <<>> /\ url = <<>> /\ prts = <<>> /\ inp = None /\ warned = FALSE

IdleRef == ref = None

\* No picker has run.
IdlePick ==
    /\ items = <<>>
    /\ show_urls_default = FALSE
    /\ show_urls = FALSE
    /\ choice = None
    /\ user_input = <<>>
    /\ rendered = None
    /\ reported = "nothing"
    /\ picked = None
    /\ renders = 0
    /\ lines = 0
    /\ toggles = 0

\* An entry of trace: something printed, prompted or requested.
Ev(name) == [ev |-> name]

\* No command runs.
IdleCmd ==
    /\ cmd = None
    /\ opts = None
    /\ pressed = None
    /\ media_type = "None"
    /\ trace = <<>>
    /\ outcome = "running"

\* No history was fetched.
IdleHist == data = None /\ prog = <<>> /\ next_data = None

InitUrl ==
    pc = "url_input" /\ IdleUrl /\ IdleRef /\ IdlePick /\ IdleCmd /\ IdleHist

\* The user extends the path by one raw segment.
TypeSegment ==
    /\ pc = "url_input"
    /\ Len(segs) < MaxSegs
    /\ \E s \in RawSegments : segs' = Append(segs, s)
    /\ UNCHANGED <<pc, url, prts, inp, warned, ref, pickVars, cmdVars,
                   histVars>>

\* _parse_url_to_input(url) runs on the URL given (lines 136-157).
ParseUrl(u) ==
    LET parts == Urlsplit(u)
    IN  /\ url' = u
        /\ warned' = NetlocWarning(parts)
        /\ prts' = PathParts(parts.path)
        /\ inp' = MatchParts(prts')

Resolve ==
    /\ pc = "url_input"
    /\ ParseUrl(BuildUrl(UrlPrefix, segs))
    /\ pc' = "url_done"
    /\ UNCHANGED <<segs, ref, pickVars, cmdVars, histVars>>

NextUrl == TypeSegment \/ Resolve

SpecUrl == InitUrl /\ [][NextUrl]_vars

(***************************************************************************)
(* Claims about _parse_url_to_input, checked under SpecUrl                 *)
(***************************************************************************)

\* The raw segments, trimmed, the blank ones dropped.
TrimmedNonEmpty(ss) ==
    LET trimmed == [i \in 1..Len(ss) |-> Strip(ss[i])]
    IN  SelectSeq(trimmed, LAMBDA t : t # <<>>)

IntsParse(ps) == IsPyInt(ps[4]) /\ IsPyInt(ps[6])

\* C1: prts is the list of non-empty, trimmed path segments, and the result
\* is decided by the first pattern prts matches: movies, then the episode
\* shape, then shows; any other list raises and no reference is returned.
C1_FirstMatchClassification ==
    pc = "url_done" =>
        /\ prts = TrimmedNonEmpty(segs)
        /\ IsMovieShape(prts) => inp = MovieId(prts[2])
        /\ ~IsMovieShape(prts) /\ IsEpisodeShape(prts) /\ IntsParse(prts) =>
              inp = EpisodeId(prts[2], PyInt(prts[4]), PyInt(prts[6]))
        /\ ~IsMovieShape(prts) /\ IsEpisodeShape(prts) /\ ~IntsParse(prts) =>
              ~IsInput(inp)
        /\ ~IsMovieShape(prts) /\ ~IsEpisodeShape(prts) /\ IsShowShape(prts) =>
              inp = TVShowId(prts[2])
        /\ ~IsMovieShape(prts) /\ ~IsEpisodeShape(prts) /\ ~IsShowShape(prts) =>
              inp = ValueError("parts")

\* An episode URL whose raw segments held blanks was resolved to an episode.
C1_Witness ==
    /\ pc = "url_done"
    /\ inp.kind = "EpisodeId"
    /\ inp.id = <<"2">>
    /\ segs[2] = <<" ", "2", " ">>

\* [shows, id, seasons, ...] with no "episodes" segment after the season.
SeasonsWithoutEpisodes(ps) ==
    /\ Len(ps) >= 3
    /\ ps[1] = kShows
    /\ ps[3] = kSeasons
    /\ ~(Len(ps) >= 5 /\ ps[5] = kEpisodes)

\* C2 as stated: a URL with "seasons" and no following "episodes" segment
\* fails and returns no reference.
C2_SeasonsWithoutEpisodesFails ==
    pc = "url_done" /\ SeasonsWithoutEpisodes(prts) => inp.kind = "ValueError"

\* C2 amended: a URL with "seasons" and no following "episodes" segment
\* matches the show pattern and returns TVShowId(id).
C2_SeasonsWithoutEpisodesIsShow ==
    pc = "url_done" /\ SeasonsWithoutEpisodes(prts) => inp = TVShowId(prts[2])

\* /shows/<id>/seasons/<s> was resolved, to a show.
C2_Witness ==
    /\ pc = "url_done"
    /\ SeasonsWithoutEpisodes(prts)
    /\ Len(prts) = 4
    /\ IsPyInt(prts[4])
    /\ inp.kind = "TVShowId"

\* C3: an empty path, and a URL of the full episode shape whose season or
\* episode is not an integer, raise; neither returns a reference, so a
\* non-integer number never falls through to the show pattern.
C3_EmptyOrNonIntegerFails ==
    pc = "url_done" =>
        /\ prts = <<>> => inp.kind = "ValueError"
        /\ IsEpisodeShape(prts) /\ ~IntsParse(prts) => inp.kind = "ValueError"

\* A URL of the episode shape with a non-integer season was given.
C3_Witness ==
    /\ pc = "url_done"
    /\ IsEpisodeShape(prts)
    /\ ~IsPyInt(prts[4])
    /\ IsPyInt(prts[6])
    /\ inp = ValueError("int")

(***************************************************************************)
(* SpecRoundTrip: the URL the display code builds for a reference, parsed  *)
(***************************************************************************)

\* Season and episode numbers of SpecRoundTrip range over -1..MaxNum.
MaxNum == 11

\* Ids (slugs): plain ones, a keyword, one with an inner blank, and ill-formed
\* ones (empty, with "/", with a leading blank, with "?", with "#").
IdInputs ==
    {<<"x">>, <<"2">>, kShows, <<"a", " ", "b">>,
     <<>>, <<"a", "/", "b">>, <<" ", "x">>, <<"x", "?", "y">>, <<"x", "#">>}

NumInputs == (0 - 1)..MaxNum

RefInputs ==
    {MovieId(id) : id \in IdInputs} \cup {TVShowId(id) : id \in IdInputs}
    \cup {EpisodeId(id, sn, en) : id \in IdInputs, sn \in NumInputs, en \in NumInputs}

\* An id the path keeps whole: not empty, no blank at either end, and none of
\* the characters that end a path segment or the path.
WellFormedId(id) ==
    /\ id # <<>>
    /\ Strip(id) = id
    /\ \A i \in 1..Len(id) : id[i] \notin {"/", "?", "#"}

\* RefUrl, had the season and episode numbers been swapped in the f-string.
RefUrlSwapped(r) ==
    IF r.kind = "EpisodeId"
    THEN UrlPrefix \o kSlash \o kShows \o kSlash \o r.id \o kSlash \o kSeasons
         \o kSlash \o IntStr(r.episode) \o kSlash \o kEpisodes \o kSlash
         \o IntStr(r.season)
    ELSE UrlPrefix \o kSlash \o (IF r.kind = "MovieId" THEN kMovies ELSE kShows)
         \o kSlash \o r.id

\* The URLs the display code builds: https://trakt.tv/movies/{slug} (lines 222
\* and 494), https://trakt.tv/shows/{slug} (line 232) and
\* https://trakt.tv/shows/{slug}/seasons/{season}/episodes/{episode} (line 500).
RefUrl(r) ==
    IF r.kind = "MovieId"
    THEN UrlPrefix \o kSlash \o kMovies \o kSlash \o r.id
    ELSE IF r.kind = "TVShowId"
    THEN UrlPrefix \o kSlash \o kShows \o kSlash \o r.id
    ELSE UrlPrefix \o kSlash \o kShows \o kSlash \o r.id \o kSlash \o kSeasons
         \o kSlash \o IntStr(r.season) \o kSlash \o kEpisodes \o kSlash
         \o IntStr(r.episode)

InitRoundTrip ==
    /\ pc = "rt_ref"
    /\ ref \in RefInputs
    /\ IdleUrl /\ IdlePick /\ IdleCmd /\ IdleHist

\* The URL of ref is built.
DisplayUrl ==
    /\ pc = "rt_ref"
    /\ url' = RefUrl(ref)
    /\ pc' = "rt_url"
    /\ UNCHANGED <<segs, prts, inp, warned, ref, pickVars, cmdVars, histVars>>

\* The URL built is given to _parse_url_to_input.
ResolveDisplayed ==
    /\ pc = "rt_url"
    /\ ParseUrl(url)
    /\ pc' = "rt_done"
    /\ UNCHANGED <<segs, ref, pickVars, cmdVars, histVars>>

NextRoundTrip == DisplayUrl \/ ResolveDisplayed

SpecRoundTrip == InitRoundTrip /\ [][NextRoundTrip]_vars

\* C4: the URL built for a movie, show or episode reference with a well-formed
\* id parses back to that reference, of the same variant.
C4_RoundTrip ==
    pc = "rt_done" /\ WellFormedId(ref.id) => inp = ref

\* An episode with a two-digit season and a negative episode number made the
\* round trip.
C4_Witness ==
    /\ pc = "rt_done"
    /\ ref.kind = "EpisodeId"
    /\ WellFormedId(ref.id)
    /\ ref.season > 9
    /\ ref.episode < 0
    /\ inp = ref

(***************************************************************************)
(* _handle_pick_result and _pick_item                                      *)
(***************************************************************************)

\* click.prompt(..., default="1"): an empty line becomes the default.
PromptValue(line) == IF line = <<>> THEN <<"1">> ELSE line

\* HandlePickResult, had n and q been lines like any other.
HandlePickResultNoCancel(value) ==
    IF Strip(value) = <<"u">> THEN [kind |-> "u"]
    ELSE IF IsPyInt(value) THEN [kind |-> "int", value |-> PyInt(value)]
    ELSE [kind |-> "none"]

\* Lines 247-259: what _handle_pick_result returns, or that it raises
\* click.Abort; "none" comes with the could-not-parse message.
HandlePickResult(value) ==
    IF Strip(value) \in {<<"n">>, <<"q">>} THEN [kind |-> "Abort"]
    ELSE IF Strip(value) = <<"u">> THEN [kind |-> "u"]
    ELSE IF IsPyInt(value) THEN [kind |-> "int", value |-> PyInt(value)]
    ELSE [kind |-> "none"]

\* ToggleShowUrls, had the "u" key only ever switched the URLs on.
ToggleShowUrlsOn(flag) == TRUE

\* Line 287: show_urls = not show_urls
ToggleShowUrls(flag) == ~flag

\* OutOfRange, had the lower limit been written choice < 0.
OutOfRangeFromZero(c, its) == c < 0 \/ c > Len(its)

\* Line 293: choice < 1 or choice > len(items)
OutOfRange(c, its) == c < 1 \/ c > Len(its)

IndexError == [kind |-> "IndexError"]

\* Python's seq[i]: i counts from 0, a negative i from the end, and an index
\* outside the list raises IndexError.
PyIndex(its, i) ==
    LET j == IF i >= 0 THEN i + 1 ELSE Len(its) + i + 1
    IN  IF j \in 1..Len(its) THEN its[j] ELSE IndexError

\* Line 297: items[choice - 1]
PickedItem(its, c) == PyIndex(its, c - 1)

\* Line 278: show_options(show_urls, items)
ShowOptions ==
    /\ pc = "pick_render"
    /\ rendered' = show_urls
    /\ renders' = renders + 1
    /\ pc' = "pick_prompt"
    /\ UNCHANGED <<items, show_urls_default, show_urls, choice, user_input,
                   reported, picked, lines, toggles>>

\* Lines 279-297: one line is read and handled, up to the next test of the
\* while condition.
PickLine(line) ==
    LET r == HandlePickResult(PromptValue(line))
    IN  /\ user_input' = line
        /\ lines' = lines + 1
        /\ toggles' = IF Strip(line) = <<"u">> THEN toggles + 1 ELSE toggles
        /\ IF r.kind = "Abort"
           THEN /\ pc' = "pick_aborted"
                /\ reported' = "nothing"
                /\ UNCHANGED <<show_urls, choice, picked>>
           ELSE IF r.kind = "none"
           THEN /\ pc' = "pick_render"
                /\ reported' = "could not parse"
                /\ choice' = None
                /\ UNCHANGED <<show_urls, picked>>
           ELSE IF r.kind = "u"
           THEN /\ pc' = "pick_render"
                /\ reported' = "nothing"
                /\ show_urls' = ToggleShowUrls(show_urls)
                /\ choice' = None
                /\ UNCHANGED picked
           ELSE IF OutOfRange(r.value, items)
           THEN /\ pc' = "pick_render"
                /\ reported' = "invalid choice"
                /\ choice' = None
                /\ UNCHANGED <<show_urls, picked>>
           ELSE /\ picked' = PickedItem(items, r.value)
                /\ pc' = IF picked' = IndexError THEN "pick_raised"
                         ELSE "pick_returned"
                /\ reported' = "nothing"
                /\ choice' = r.value
                /\ UNCHANGED show_urls
        /\ UNCHANGED <<items, show_urls_default, rendered, renders>>

(***************************************************************************)
(* SpecPick: _pick_item on item lists and input lines of bounded sets      *)
(***************************************************************************)

\* The longest item list.
MaxItems == 2

\* The most lines one run of the picker reads.
MaxLines == 4

ItemList(n) == [i \in 1..n |-> [item |-> i]]

\* The lines typed: cancel and toggle keys, bare and padded; the empty line;
\* integers from below the range to above it; a padded integer; other text.
LineInputs ==
    {<<"n">>, <<" ", "q">>, <<"u">>, <<"u", " ">>, <<>>, <<" ", "2">>,
     <<"x">>, <<"Q">>, <<"1", ".", "0">>}
    \cup {IntStr(k) : k \in (0 - 1)..(MaxItems + 1)}

\* _pick_item is entered (lines 275-276).
EnterPicker(its, urls) ==
    /\ items' = its
    /\ show_urls_default' = urls
    /\ show_urls' = urls
    /\ choice' = None
    /\ UNCHANGED <<user_input, rendered, reported, renders, lines, toggles>>

InitPick ==
    /\ pc = "pick_render"
    /\ IdleUrl /\ IdleRef /\ IdleCmd /\ IdleHist
    /\ \E n \in 0..MaxItems : items = ItemList(n)
    /\ show_urls_default \in BOOLEAN
    /\ show_urls = show_urls_default
    /\ choice = None
    /\ user_input = <<>>
    /\ rendered = None
    /\ reported = "nothing"
    /\ picked = None
    /\ renders = 0
    /\ lines = 0
    /\ toggles = 0

PickRender == ShowOptions /\ UNCHANGED <<urlVars, ref, cmdVars, histVars>>

PickPrompt ==
    /\ pc = "pick_prompt"
    /\ lines < MaxLines
    /\ \E line \in LineInputs : PickLine(line)
    /\ UNCHANGED <<urlVars, ref, cmdVars, histVars>>

NextPick == PickRender \/ PickPrompt

SpecPick == InitPick /\ [][NextPick]_vars

(***************************************************************************)
(* progress: the history page and the dict prog (lines 616-664)            *)
(***************************************************************************)

\* Lines 631-634: the entries the loop does not skip.
IsWatchedEpisode(entry) ==
    entry.action = "watch" /\ entry.media_type = "episode"

\* entry.media_data.show.ids.trakt_id
ShowKey(entry) == entry.show

\* key in prog
HasKey(pg, k) == \E i \in 1..Len(pg) : pg[i].key = k

\* The place of key k among the items of prog.
KeyIndex(pg, k) == CHOOSE i \in 1..Len(pg) : pg[i].key = k

\* prog[k] = entry: a new key goes last, a known key keeps its place.
SetItem(pg, k, entry) ==
    IF HasKey(pg, k)
    THEN [pg EXCEPT ![KeyIndex(pg, k)] = [key |-> k, value |-> entry]]
    ELSE Append(pg, [key |-> k, value |-> entry])

\* ScanEntry, had a known show never been replaced.
ScanEntryKeepFirst(pg, entry) ==
    IF ~IsWatchedEpisode(entry) \/ HasKey(pg, ShowKey(entry)) THEN pg
    ELSE SetItem(pg, ShowKey(entry), entry)

\* ScanEntry, had the comparison of line 646 been >=.
ScanEntryLastWins(pg, entry) ==
    IF ~IsWatchedEpisode(entry) THEN pg
    ELSE IF ~HasKey(pg, ShowKey(entry)) THEN SetItem(pg, ShowKey(entry), entry)
    ELSE IF entry.watched_at >= pg[KeyIndex(pg, ShowKey(entry))].value.watched_at
    THEN SetItem(pg, ShowKey(entry), entry)
    ELSE pg

\* Lines 631-647: the body of the loop over the page, for one entry.
ScanEntry(pg, entry) ==
    IF entry.action # "watch" THEN pg
    ELSE IF entry.media_type # "episode" THEN pg
    ELSE IF ~HasKey(pg, ShowKey(entry))
    THEN SetItem(pg, ShowKey(entry), entry)
    ELSE IF entry.watched_at > pg[KeyIndex(pg, ShowKey(entry))].value.watched_at
    THEN SetItem(pg, ShowKey(entry), entry)
    ELSE pg

\* Lines 630-647: the loop, from prog pg on, over the entries in page order.
RECURSIVE ScanHistory(_, _)
ScanHistory(pg, entries) ==
    IF entries = <<>> THEN pg
    ELSE ScanHistory(ScanEntry(pg, Head(entries)), Tail(entries))

\* x put behind every item of the sorted list that is not older than x.
RECURSIVE InsertByWatchedAt(_, _)
InsertByWatchedAt(sorted, x) ==
    IF sorted = <<>> THEN <<x>>
    ELSE IF Head(sorted).value.watched_at >= x.value.watched_at
    THEN <<Head(sorted)>> \o InsertByWatchedAt(Tail(sorted), x)
    ELSE <<x>> \o sorted

\* SortByWatchedAt, had prog been left in the order of its insertions.
InsertionOrder(pg) == pg

\* Line 650: sorted(prog.items(), key=watched_at, reverse=True), which keeps
\* items of equal watched_at in their order.
RECURSIVE SortByWatchedAt(_)
SortByWatchedAt(pg) ==
    IF pg = <<>> THEN <<>>
    ELSE InsertByWatchedAt(SortByWatchedAt(SubSeq(pg, 1, Len(pg) - 1)),
                           pg[Len(pg)])

\* list(prog.values())
Values(pg) == [i \in 1..Len(pg) |-> pg[i].value]

\* The page of the entries f[1], f[2], ...: an entry's history_id is its place.
HistoryPage(f) == [i \in DOMAIN f |-> [history_id |-> i] @@ f[i]]

\* Lines 616-624: a page of up to n entries is requested; an empty one ends
\* the command.
ProgressFetch(n, shapes) ==
    /\ pc = "progress_fetch"
    /\ \E k \in 0..n : \E f \in [1..k -> shapes] :
          /\ data' = HistoryPage(f)
          /\ IF k = 0
             THEN /\ trace' = trace \o <<Ev("request history"),
                                         Ev("Didn't find any progress")>>
                  /\ outcome' = "returned"
                  /\ pc' = "done"
             ELSE /\ trace' = Append(trace, Ev("request history"))
                  /\ outcome' = outcome
                  /\ pc' = "progress_scan"
    /\ UNCHANGED <<urlVars, ref, pickVars, cmd, opts, pressed, media_type, prog,
                   next_data>>

\* Lines 628-647: prog is filled from the page.
ProgressScan ==
    /\ pc = "progress_scan"
    /\ prog' = ScanHistory(<<>>, data)
    /\ pc' = "progress_sort"
    /\ UNCHANGED <<urlVars, ref, pickVars, cmdVars, data, next_data>>

\* Lines 650-664: prog is sorted and its values are given to _pick_item.
ProgressPick ==
    /\ pc = "progress_sort"
    /\ prog' = SortByWatchedAt(prog)
    /\ EnterPicker(Values(prog'), opts.urls)
    /\ pc' = "pick_render"
    /\ UNCHANGED picked
    /\ UNCHANGED <<urlVars, ref, cmdVars, data, next_data>>

(***************************************************************************)
(* SpecProgress: the scan of progress on the pages of a bounded set        *)
(***************************************************************************)

\* The longest history page.
MaxPage == 3

\* watched_at ranges over 1..MaxTime.
MaxTime == 2

\* The trakt ids of the shows in a page.
ShowIds == {7, 42}

\* What an entry of a page may be, but for its history_id: an episode of a
\* show, watched or scrobbled, or a watched movie.
EntryShapes ==
    {[watched_at |-> t, action |-> a, media_type |-> "episode", show |-> sh] :
        t \in 1..MaxTime, a \in {"watch", "scrobble"}, sh \in ShowIds}
    \cup {[watched_at |-> t, action |-> "watch", media_type |-> "movie"] :
            t \in 1..MaxTime}

InitProgress ==
    /\ pc = "progress_fetch"
    /\ cmd = "progress"
    /\ \E u \in BOOLEAN : opts = [urls |-> u]
    /\ pressed = None
    /\ media_type = "None"
    /\ trace = <<>>
    /\ outcome = "running"
    /\ IdleUrl /\ IdleRef /\ IdlePick /\ IdleHist

NextProgress ==
    ProgressFetch(MaxPage, EntryShapes) \/ ProgressScan \/ ProgressPick

SpecProgress == InitProgress /\ [][NextProgress]_vars

\* The places in the page of the watched episodes.
Watched == {i \in 1..Len(data) : IsWatchedEpisode(data[i])}

\* The places in the page of show sh's watched episodes.
WatchedOf(sh) == {i \in Watched : data[i].show = sh}

\* The latest watched_at among show sh's watched episodes.
LatestOf(sh) ==
    CHOOSE t \in {data[i].watched_at : i \in WatchedOf(sh)} :
        \A i \in WatchedOf(sh) : data[i].watched_at <= t

Scanned == pc \in {"progress_sort", "pick_render"} /\ cmd = "progress"

\* C9: after the scan prog holds exactly one entry for each show that has a
\* watch/episode entry in the page and none for any other show, and the entry
\* held for a show is one of that show's watch/episode entries with the
\* greatest watched_at.
C9_ProgHoldsLatestPerShow ==
    Scanned =>
        /\ {prog[j].key : j \in 1..Len(prog)} = {data[i].show : i \in Watched}
        /\ Len(prog) = Cardinality({data[i].show : i \in Watched})
        /\ \A j \in 1..Len(prog) :
              /\ \E i \in WatchedOf(prog[j].key) : prog[j].value = data[i]
              /\ prog[j].value.watched_at = LatestOf(prog[j].key)

\* Show 42 was watched at 1 and then at 2 and prog holds the entry of 2 alone.
C9_Witness ==
    /\ pc = "progress_sort"
    /\ Len(data) = 2
    /\ IsWatchedEpisode(data[1]) /\ IsWatchedEpisode(data[2])
    /\ data[1].show = 42 /\ data[2].show = 42
    /\ data[1].watched_at = 1 /\ data[2].watched_at = 2
    /\ Len(prog) = 1
    /\ prog[1].value = data[2]

\* The places of show sh's watch/episode entries with the latest watched_at.
LatestPlaces(sh) == {i \in WatchedOf(sh) : data[i].watched_at = LatestOf(sh)}

First(places) == CHOOSE i \in places : \A k \in places : i <= k

Last(places) == CHOOSE i \in places : \A k \in places : k <= i

\* C10 as stated: of the entries of a show that share its latest watched_at,
\* prog holds the one that comes last in the page.
C10_TieLastSeenWins ==
    Scanned =>
        \A j \in 1..Len(prog) :
            prog[j].value = data[Last(LatestPlaces(prog[j].key))]

\* C10 amended: of the entries of a show that share its latest watched_at,
\* prog holds the one that comes first in the page.
C10_TieFirstSeenWins ==
    Scanned =>
        \A j \in 1..Len(prog) :
            prog[j].value = data[First(LatestPlaces(prog[j].key))]

\* Two entries of show 42 share the latest watched_at and the first is held.
C10_Witness ==
    /\ pc = "progress_sort"
    /\ Len(data) = 3
    /\ WatchedOf(42) = {1, 2, 3}
    /\ LatestPlaces(42) = {2, 3}
    /\ Len(prog) = 1
    /\ prog[1].value = data[2]

\* C11: the list progress gives to the picker is the entries the scan
\* retained, one per show, ordered by watched_at descending: of two offered
\* entries with different watched_at the later one has the smaller index, so
\* that index 1 is an entry of the latest watched_at.
C11_OfferedNewestFirst ==
    pc = "pick_render" /\ cmd = "progress" =>
        /\ items = Values(prog)
        /\ Len(items) = Len(ScanHistory(<<>>, data))
        /\ {items[i] : i \in 1..Len(items)}
             = {e.value : e \in {ScanHistory(<<>>, data)[i] :
                                    i \in 1..Len(ScanHistory(<<>>, data))}}
        /\ \A i, j \in 1..Len(items) :
              items[i].watched_at > items[j].watched_at => i < j
        /\ \A j \in 1..Len(items) : items[1].watched_at >= items[j].watched_at

\* Show 42 came first in the page and show 7 was watched later: show 7 is
\* offered first.
C11_Witness ==
    /\ pc = "pick_render"
    /\ Len(data) = 2
    /\ IsWatchedEpisode(data[1]) /\ IsWatchedEpisode(data[2])
    /\ data[1].show = 42 /\ data[1].watched_at = 1
    /\ data[2].show = 7 /\ data[2].watched_at = 2
    /\ items = <<data[2], data[1]>>

(***************************************************************************)
(* _search_trakt, _handle_input and the commands up to their picker        *)
(***************************************************************************)

\* Line 262
allowed == {<<"M">>, <<"S">>, <<"I">>, <<"E">>, <<"A">>, <<"U">>}

UpperChar(c) ==
    CASE c = "m" -> "M" [] c = "s" -> "S" [] c = "i" -> "I" [] c = "e" -> "E"
      [] c = "a" -> "A" [] c = "u" -> "U" [] c = "x" -> "X" [] OTHER -> c

\* str.upper()
Upper(str) == [i \in 1..Len(str) |-> UpperChar(str[i])]

\* Lines 310-316: what the key makes the menu print, if anything.
MenuReport(key) ==
    IF Strip(key) = <<>> THEN <<Ev("No input")>>
    ELSE IF key \notin allowed THEN <<Ev("should be one of")>>
    ELSE <<>>

\* Line 321: pressed if pressed in allowed else "A"
EffectiveKey(key) == IF key \in allowed THEN key ELSE <<"A">>

\* Lines 322-328: the dict lookup, None standing for every kind.
MediaTypeOf(key) ==
    CASE key = <<"M">> -> "movie"
      [] key = <<"S">> -> "show"
      [] key = <<"I">> -> "show"
      [] key = <<"E">> -> "episode"
      [] OTHER -> "None"

\* AfterMenu, had an unrecognized key led back to the menu.
AfterMenuAgain(key) ==
    IF key = <<"U">> THEN "search_url"
    ELSE IF key \in allowed THEN "search_term"
    ELSE "search_menu"

\* Lines 310-319: only the recognized key U leads to the Url prompt; every
\* other key falls through to the search.
AfterMenu(key) ==
    IF Strip(key) = <<>> THEN "search_term"
    ELSE IF key \notin allowed THEN "search_term"
    ELSE IF key = <<"U">> THEN "search_url"
    ELSE "search_term"

\* The uncaught exception or click exception that ends the command.
Raise(what) == outcome' = what /\ pc' = "done"

\* Lines 354-360: _handle_input, the callback of --url.
HandleInput ==
    /\ pc = "start"
    /\ cmd \in {"watch", "rate", "letterboxd"}
    /\ IF opts.has_url
       THEN /\ ParseUrl(opts.url)
            /\ IF IsInput(inp') THEN pc' = "resolved" /\ outcome' = outcome
               ELSE Raise("ValueError")
            /\ UNCHANGED <<trace>>
       ELSE /\ pc' = "search_menu"
            /\ UNCHANGED <<url, prts, inp, warned, trace, outcome>>
    /\ UNCHANGED <<segs, ref, pickVars, cmd, opts, pressed, media_type, histVars>>

\* Lines 304-328: the menu is printed, a key is read and handled, up to the
\* next prompt.
SearchMenu(keys) ==
    /\ pc = "search_menu"
    /\ \E key \in keys :
          LET k == Upper(key)
          IN  /\ trace' = trace \o <<Ev("menu"), [ev |-> "getchar", key |-> k]>>
                          \o MenuReport(k)
              /\ pc' = AfterMenu(k)
              /\ pressed' = IF pc' = "search_term" THEN EffectiveKey(k) ELSE k
              /\ media_type' = IF pc' = "search_term"
                               THEN MediaTypeOf(pressed')
                               ELSE media_type
    /\ UNCHANGED <<urlVars, ref, pickVars, cmd, opts, outcome, histVars>>

\* Lines 318-319: the Url prompt and _parse_url_to_input.
SearchUrl(urlInputs) ==
    /\ pc = "search_url"
    /\ \E u \in urlInputs : ParseUrl(u)
    /\ trace' = Append(trace, Ev("prompt Url"))
    /\ IF IsInput(inp') THEN pc' = "resolved" /\ outcome' = outcome
       ELSE Raise("ValueError")
    /\ UNCHANGED <<segs, ref, pickVars, cmd, opts, pressed, media_type, histVars>>

\* The results of the remote search: their kind and canonical path (ext).
MovieResult == [type |-> "movie", ext |-> kMovies \o <<"/", "x">>]

ShowResult == [type |-> "show", ext |-> kShows \o <<"/", "y">>]

EpisodeResult ==
    [type |-> "episode",
     ext |-> kShows \o <<"/", "y", "/">> \o kSeasons \o <<"/", "1", "/">>
             \o kEpisodes \o <<"/", "2">>]

PersonResult == [type |-> "person", ext |-> <<"p", "/", "z">>]

\* What a search of the given kind may return.
ResultPool(kind) ==
    CASE kind = "movie" -> {MovieResult}
      [] kind = "show" -> {ShowResult}
      [] kind = "episode" -> {EpisodeResult}
      [] OTHER -> {MovieResult, ShowResult, EpisodeResult, PersonResult}

\* Lines 332-343: the search term is prompted for, the search is requested,
\* and its results go to _pick_item; no result raises a ClickException.
SearchTerm(n) ==
    /\ pc = "search_term"
    /\ \E k \in 0..n : \E results \in [1..k -> ResultPool(media_type)] :
          /\ trace' = trace \o <<[ev |-> "prompt Search", kind |-> media_type],
                                 [ev |-> "request search", kind |-> media_type]>>
          /\ IF results = <<>>
             THEN /\ Raise("ClickException")
                  /\ UNCHANGED pickVars
             ELSE /\ EnterPicker(results, FALSE)
                  /\ pc' = "pick_render"
                  /\ outcome' = outcome
                  /\ UNCHANGED picked
    /\ UNCHANGED <<urlVars, ref, cmd, opts, pressed, media_type, histVars>>

\* A prompt of type int and the number entered.
Prompt(text, value) == [ev |-> "prompt", text |-> text, value |-> value]

\* RebuildEpisode, had the two prompted numbers been taken the other way.
RebuildEpisodeSwapped(parsed, season, episode) ==
    EpisodeId(parsed.id, episode, season)

\* Line 350: EpisodeId(inp.id, season, episode)
RebuildEpisode(parsed, season, episode) ==
    EpisodeId(parsed.id, season, episode)

\* Lines 345-351: the picked result is fetched and its path parsed; with I
\* the season and episode are prompted for and the episode of that show is
\* returned.
AfterSearchPick(nums) ==
    /\ pc = "pick_returned"
    /\ cmd \in {"watch", "rate", "letterboxd"}
    /\ LET parsed == ParseUrlToInput(UrlPrefix \o kSlash \o picked.ext)
       IN  /\ url' = UrlPrefix \o kSlash \o picked.ext
           /\ prts' = PathParts(Urlsplit(url').path)
           /\ warned' = NetlocWarning(Urlsplit(url'))
           /\ IF ~IsInput(parsed)
              THEN /\ inp' = parsed
                   /\ Raise("ValueError")
                   /\ trace' = Append(trace, Ev("request get"))
              ELSE IF pressed = <<"I">>
              THEN \E season \in nums, episode \in nums :
                      /\ inp' = RebuildEpisode(parsed, season, episode)
                      /\ trace' = trace \o <<Ev("request get"),
                                             Prompt("Season", season),
                                             Prompt("Episode", episode)>>
                      /\ pc' = "resolved"
                      /\ outcome' = outcome
              ELSE /\ inp' = parsed
                   /\ trace' = Append(trace, Ev("request get"))
                   /\ pc' = "resolved"
                   /\ outcome' = outcome
    /\ UNCHANGED <<segs, ref, pickVars, cmd, opts, pressed, media_type, histVars>>

\* Lines 531-548: unwatch fetches a page, takes data[0], and in interactive
\* mode gives the page to _pick_item.
UnwatchFetch(n, shapes) ==
    /\ pc = "start"
    /\ cmd = "unwatch"
    /\ \E k \in 0..n : \E f \in [1..k -> shapes] :
          /\ data' = HistoryPage(f)
          /\ trace' = Append(trace, Ev("request history"))
          /\ IF PyIndex(data', 0) = IndexError
             THEN /\ Raise("IndexError")
                  /\ UNCHANGED pickVars
             ELSE IF opts.interactive
             THEN /\ picked' = PyIndex(data', 0)
                  /\ EnterPicker(data', opts.urls)
                  /\ pc' = "pick_render"
                  /\ outcome' = outcome
             ELSE /\ picked' = PyIndex(data', 0)
                  /\ pc' = "unwatch_confirm"
                  /\ outcome' = outcome
                  /\ UNCHANGED <<items, show_urls_default, show_urls, choice,
                                 user_input, rendered, reported, renders,
                                 lines, toggles>>
    /\ UNCHANGED <<urlVars, ref, cmd, opts, pressed, media_type, prog,
                   next_data>>

\* click.Abort leaves the picker and ends the command.
PickAborted ==
    /\ pc = "pick_aborted"
    /\ Raise("Abort")
    /\ UNCHANGED <<urlVars, ref, pickVars, cmd, opts, pressed, media_type,
                   trace, histVars>>

(***************************************************************************)
(* _mark_watched, _rate_input and the bodies of the commands               *)
(***************************************************************************)

\* click.confirm and the answer given.
Confirm(text, answer) == [ev |-> "confirm", text |-> text, answer |-> answer]

\* The three remote calls that change the account; ok tells whether the call
\* returned, the other outcome being the exception of a failed transport.
MarkAsSeen(input, ok) == [ev |-> "call mark_as_seen", inp |-> input, ok |-> ok]

RateCall(input, rating, ok) ==
    [ev |-> "call rate", inp |-> input, rating |-> rating, ok |-> ok]

RemoveCall(history_id, ok) ==
    [ev |-> "call remove", ids |-> <<history_id>>, ok |-> ok]

MutatingEvents == {"call mark_as_seen", "call rate", "call remove"}

\* The option --rating: None, or an integer of 1..10.
NoRating == [given |-> FALSE]

Rating(value) == [given |-> TRUE, value |-> value]

\* Python's "not rating"
NotRating(rating) == ~rating.given \/ rating.value = 0

\* Failed, had the exception of a failed call been swallowed.
FailedIgnored(events) == FALSE

\* A mutating call of the events did not return.
Failed(events) ==
    /\ events # <<>>
    /\ events[Len(events)].ev \in MutatingEvents
    /\ ~events[Len(events)].ok

\* RatingEvents, had the rating been sent without the prompt.
RatingEventsUnprompted(input, rating, ans) ==
    LET asked == IF rating.given THEN <<>>
                 ELSE <<Confirm("Set rating?", ans.set_rating)>>
        value == IF NotRating(rating) THEN 0 ELSE rating.value
    IN  IF rating.given \/ ans.set_rating
        THEN asked \o <<RateCall(input, value, ans.ok_rate)>>
        ELSE asked

\* Lines 173-177: after a movie was marked, the rating is asked for unless
\* given, prompted for if it is wanted and not given, and sent.
RatingEvents(input, rating, ans) ==
    LET asked == IF rating.given THEN <<>>
                 ELSE <<Confirm("Set rating?", ans.set_rating)>>
        wanted == rating.given \/ ans.set_rating
        prompted == IF NotRating(rating)
                    THEN <<Prompt("Rating", ans.prompted)>>
                    ELSE <<>>
        value == IF NotRating(rating) THEN ans.prompted ELSE rating.value
    IN  IF wanted
        THEN asked \o prompted \o <<RateCall(input, value, ans.ok_rate)>>
        ELSE asked

\* MarkWatched, had an entire show been marked without the question.
MarkWatchedAlways(input, rating, ans) ==
    <<MarkAsSeen(input, ans.ok_mark)>>

\* Lines 163-189: what _mark_watched asks and calls, up to its return or to
\* the call that did not return.
MarkWatched(input, rating, ans) ==
    IF input.kind = "MovieId"
    THEN IF ans.ok_mark
         THEN <<MarkAsSeen(input, TRUE)>> \o RatingEvents(input, rating, ans)
         ELSE <<MarkAsSeen(input, FALSE)>>
    ELSE IF input.kind = "EpisodeId"
    THEN <<MarkAsSeen(input, ans.ok_mark)>>
    ELSE <<Confirm("Really mark entire show as watched?", ans.really)>>
         \o (IF ans.really THEN <<MarkAsSeen(input, ans.ok_mark)>> ELSE <<>>)

\* Lines 726-740: _rate_input sends the rating, whatever the input is.
RateInput(input, rating, ok) == <<RateCall(input, rating, ok)>>

\* The answers one run of _mark_watched may be given and the fates of its
\* calls.
Answers(ratings) ==
    [set_rating : BOOLEAN, prompted : ratings, really : BOOLEAN,
     ok_mark : BOOLEAN, ok_rate : BOOLEAN]

\* The command ends by returning.
Return == outcome' = "returned" /\ pc' = "done"

\* The events of a command's last part are appended; a call that did not
\* return ends the command with its exception, before the events after.
Finish(events, after) ==
    IF Failed(events)
    THEN trace' = trace \o events /\ Raise("TransportError")
    ELSE trace' = trace \o events \o after /\ Return

\* Lines 455-457: watch marks the input, with the default --letterboxd none,
\* and prints the recent history.
Watch(ratings) ==
    /\ pc = "resolved"
    /\ cmd = "watch"
    /\ \E ans \in Answers(ratings) :
          Finish(MarkWatched(inp, opts.rating, ans), <<Ev("request history")>>)
    /\ UNCHANGED <<urlVars, ref, pickVars, cmd, opts, pressed, media_type,
                   histVars>>

\* Lines 768-773: rate, with the default --letterboxd none.
Rate ==
    /\ pc = "resolved"
    /\ cmd = "rate"
    /\ \E ok \in BOOLEAN : Finish(RateInput(inp, opts.rating.value, ok), <<>>)
    /\ UNCHANGED <<urlVars, ref, pickVars, cmd, opts, pressed, media_type,
                   histVars>>

\* Lines 385-409 and 785-790: letterboxd opens the page of a movie or show
\* that has a tmdb id and reports that it could not otherwise.
Letterboxd ==
    /\ pc = "resolved"
    /\ cmd = "letterboxd"
    /\ \E tmdb \in BOOLEAN :
          trace' = trace \o
              (IF inp.kind = "EpisodeId"
               THEN <<Ev("Could not open Letterboxd URL")>>
               ELSE IF tmdb THEN <<Ev("open letterboxd")>>
               ELSE <<Ev("Cannot determine Letterboxd URL for entry"),
                      Ev("Could not open Letterboxd URL")>>)
    /\ Return
    /\ UNCHANGED <<urlVars, ref, pickVars, cmd, opts, pressed, media_type,
                   histVars>>

\* LastHistoryId, had the first entry of the page been removed whatever was
\* picked.
FirstHistoryId(entry) == data[1].history_id

\* Line 555: last_history_id = picked.history_id
LastHistoryId(entry) == entry.history_id

\* Lines 550-570: unless --yes the removal is confirmed, a refusal aborting;
\* the entry is removed and the recent history printed.
UnwatchRemove ==
    /\ \/ pc = "unwatch_confirm"
       \/ pc = "pick_returned" /\ cmd = "unwatch"
    /\ \E answer \in BOOLEAN, ok \in BOOLEAN :
          LET asked == IF opts.yes THEN <<>>
                       ELSE <<Confirm("Remove from history?", answer)>>
          IN  IF ~opts.yes /\ ~answer
              THEN trace' = trace \o asked /\ Raise("Abort")
              ELSE Finish(asked \o <<RemoveCall(LastHistoryId(picked), ok)>>,
                          <<Ev("request history")>>)
    /\ UNCHANGED <<urlVars, ref, pickVars, cmd, opts, pressed, media_type,
                   histVars>>

\* Python's "a or b" on two slugs, <<>> standing for None and "".
Or(a, b) == IF a = <<>> THEN b ELSE a

\* Lines 698-700
NextShowSlug(entry) == Or(entry.ep_slug, entry.show_slug)

\* NextStep, had a null next_episode been taken for an episode.
NextStepNullGoesOn(nd) ==
    IF nd.shape = "empty" THEN "No progress found"
    ELSE IF nd.shape = "no_next" THEN "AssertionError"
    ELSE "confirm"

\* Lines 680-705: what the response leads to: one of the two messages and a
\* return, a failed assertion, or the confirmation.
NextStep(nd) ==
    IF nd.shape = "empty" THEN "No progress found"
    ELSE IF nd.shape = "no_next" THEN "AssertionError"
    ELSE IF nd.shape = "null" THEN "No next episode found"
    ELSE IF ~nd.number_int THEN "AssertionError"
    ELSE IF ~nd.season_int THEN "AssertionError"
    ELSE "confirm"

\* Lines 674-705: the watched progress of the picked show is requested.
ProgressNext(shapes) ==
    /\ pc = "pick_returned"
    /\ cmd = "progress"
    /\ \E nd \in shapes :
          LET req == [ev |-> "request progress", show |-> picked.show]
              step == NextStep(nd)
          IN  /\ next_data' = nd
              /\ IF step = "confirm"
                 THEN /\ trace' = Append(trace, req)
                      /\ pc' = "progress_confirm"
                      /\ outcome' = outcome
                 ELSE IF step = "AssertionError"
                 THEN trace' = Append(trace, req) /\ Raise("AssertionError")
                 ELSE trace' = trace \o <<req, Ev(step)>> /\ Return
    /\ UNCHANGED <<urlVars, ref, pickVars, cmd, opts, pressed, media_type,
                   data, prog>>

\* Confirmed, had the answer not been looked at.
ConfirmedAnyway(answer) == TRUE

\* Line 713: the answer that lets progress go on.
Confirmed(answer) == answer

\* Lines 713-723: the next episode is confirmed, marked by _mark_watched,
\* and the recent history printed; a refusal returns.
ProgressConfirm ==
    /\ pc = "progress_confirm"
    /\ next_data.shape = "next"
    /\ \E answer \in BOOLEAN, ans \in Answers({0}) :
          LET asked == <<Confirm("Mark as watched?", answer)>>
              ep == EpisodeId(NextShowSlug(picked), next_data.season,
                              next_data.number)
          IN  IF ~Confirmed(answer)
              THEN trace' = trace \o asked /\ Return /\ inp' = inp
              ELSE /\ inp' = ep
                   /\ Finish(asked \o MarkWatched(ep, NoRating, ans),
                             <<Ev("request history")>>)
    /\ UNCHANGED <<segs, url, prts, warned, ref, pickVars, cmd, opts, pressed,
                   media_type, histVars>>

\* The exit status of the process: 0 after a return, 1 after click.Abort, a
\* ClickException and an uncaught exception.
ExitStatus(how) == IF how = "returned" THEN 0 ELSE 1

(***************************************************************************)
(* Spec: one run of a command, on inputs of bounded sets                   *)
(***************************************************************************)

\* The longest search result and history page of Spec.
MaxCmdItems == 2

\* The most lines one run of the picker reads in Spec.
MaxCmdLines == 2

\* The URLs given with --url or at the Url prompt: a movie, an episode, a
\* show, a movie on another host, and a page that is none of them.
UrlInputs ==
    {UrlPrefix \o kSlash \o kMovies \o <<"/", "x">>,
     UrlPrefix \o kSlash \o kShows \o <<"/", "y", "/">> \o kSeasons
        \o <<"/", "1", "/">> \o kEpisodes \o <<"/", "2">>,
     UrlPrefix \o kSlash \o kShows \o <<"/", "y">>,
     kHttps \o <<"t", ".", "v", "/">> \o kMovies \o <<"/", "x">>,
     UrlPrefix \o <<"/", "p", "/", "z">>,
     UrlPrefix \o kSlash \o kShows \o <<"/", "y", "/">> \o kSeasons
        \o <<"/", "-", "1", "/">> \o kEpisodes \o <<"/", "0">>}

\* The keys pressed at the menu.
KeyInputs ==
    {<<"m">>, <<"S">>, <<"I">>, <<"E">>, <<"A">>, <<"u">>, <<" ">>, <<"x">>}

\* The numbers entered at the Season and Episode prompts.
PromptNums == {0 - 1, 0, 3}

\* The entries of the history pages of Spec.
CmdEntryShapes ==
    {[watched_at |-> 1, action |-> "watch", media_type |-> "episode",
      show |-> 42, ep_slug |-> <<>>, show_slug |-> <<"y">>],
     [watched_at |-> 2, action |-> "scrobble", media_type |-> "episode",
      show |-> 7, ep_slug |-> <<"e">>, show_slug |-> <<"w">>],
     [watched_at |-> 2, action |-> "watch", media_type |-> "episode",
      show |-> 7, ep_slug |-> <<"e">>, show_slug |-> <<"w">>],
     [watched_at |-> 2, action |-> "watch", media_type |-> "movie"]}

\* The --rating options of watch and the numbers entered at its Rating
\* prompt.
RatingOptions == {NoRating, Rating(7)}

RatingInputs == {0, 8}

\* The responses to the watched-progress request: nothing, a response
\* without next_episode, one with a null next_episode, and next episodes
\* with and without integer numbers.
NextDataInputs ==
    {[shape |-> "empty"], [shape |-> "no_next"], [shape |-> "null"],
     [shape |-> "next", number_int |-> TRUE, number |-> 2,
      season_int |-> TRUE, season |-> 1],
     [shape |-> "next", number_int |-> TRUE, number |-> 0,
      season_int |-> TRUE, season |-> 0],
     [shape |-> "next", number_int |-> FALSE, number |-> 0,
      season_int |-> TRUE, season |-> 1],
     [shape |-> "next", number_int |-> TRUE, number |-> 2,
      season_int |-> FALSE, season |-> 0]}

\* The lines typed at the picker of Spec.
CmdLineInputs == {<<"q">>, <<"u">>, <<>>, <<"2">>, <<"x">>}

Commands == {"watch", "rate", "letterboxd", "unwatch", "progress"}

\* The options a command may be given.
Options(c) ==
    IF c = "unwatch"
    THEN [interactive : BOOLEAN, yes : BOOLEAN, urls : BOOLEAN]
    ELSE IF c = "progress"
    THEN [urls : BOOLEAN]
    ELSE LET ratings == IF c = "watch" THEN RatingOptions
                        ELSE IF c = "rate" THEN {Rating(7)}
                        ELSE {NoRating}
         IN  [has_url : {TRUE}, url : UrlInputs, rating : ratings]
             \cup [has_url : {FALSE}, url : {<<>>}, rating : ratings]

Init ==
    /\ cmd \in Commands
    /\ opts \in Options(cmd)
    /\ pc = IF cmd = "progress" THEN "progress_fetch" ELSE "start"
    /\ pressed = None
    /\ media_type = "None"
    /\ trace = <<>>
    /\ outcome = "running"
    /\ IdleUrl /\ IdleRef /\ IdlePick /\ IdleHist

CmdPickRender == ShowOptions /\ UNCHANGED <<urlVars, ref, cmdVars, histVars>>

CmdPickPrompt ==
    /\ pc = "pick_prompt"
    /\ lines < MaxCmdLines
    /\ \E line \in CmdLineInputs : PickLine(line)
    /\ UNCHANGED <<urlVars, ref, cmdVars, histVars>>

Next ==
    \/ HandleInput
    \/ SearchMenu(KeyInputs)
    \/ SearchUrl(UrlInputs)
    \/ SearchTerm(MaxCmdItems)
    \/ AfterSearchPick(PromptNums)
    \/ UnwatchFetch(MaxCmdItems, CmdEntryShapes)
    \/ ProgressFetch(MaxCmdItems, CmdEntryShapes)
    \/ ProgressScan
    \/ ProgressPick
    \/ CmdPickRender
    \/ CmdPickPrompt
    \/ PickAborted
    \/ Watch(RatingInputs)
    \/ Rate
    \/ Letterboxd
    \/ UnwatchRemove
    \/ ProgressNext(NextDataInputs)
    \/ ProgressConfirm

Spec == Init /\ [][Next]_vars

(***************************************************************************)
(* Claims about _pick_item, checked under SpecPick                         *)
(***************************************************************************)

CancelLine(line) == Strip(line) \in {<<"n">>, <<"q">>}

ToggleLine(line) == Strip(line) = <<"u">>

\* A line that is an integer of 1..Len(items), the empty line standing for 1.
ValidLine(line) ==
    /\ IsPyInt(PromptValue(line))
    /\ PyInt(PromptValue(line)) \in 1..Len(items)

\* C5: for a non-empty list the picker ends only by returning items[k-1]
\* (Python's index) for an entered integer k of 1..len(items), or by the
\* cancellation an n or q line raises; after any other line that is no "u" a
\* message was printed, nothing is returned and the loop is back at rendering,
\* every prompt being preceded by a render of its own.
C5_PickerEndsByPickOrCancel ==
    Len(items) > 0 /\ lines > 0 =>
        /\ pc = "pick_returned" =>
              /\ ValidLine(user_input)
              /\ choice = PyInt(PromptValue(user_input))
              /\ picked = items[choice]
        /\ pc = "pick_aborted" => CancelLine(user_input) /\ picked = None
        /\ (~ValidLine(user_input) /\ ~CancelLine(user_input)
            /\ ~ToggleLine(user_input)) =>
              /\ pc \in {"pick_render", "pick_prompt"}
              /\ reported \in {"could not parse", "invalid choice"}
              /\ picked = None
        /\ pc = "pick_render" => renders = lines
        /\ pc = "pick_prompt" => renders = lines + 1

\* After a rejected line, the second item was picked.
C5_Witness ==
    /\ pc = "pick_returned"
    /\ lines = 2
    /\ toggles = 0
    /\ Len(items) = 2
    /\ picked = items[2]

\* C6: the flag show_options is given is show_urls_default after an even
\* number of "u" lines and its negation after an odd number; a "u" line
\* selects nothing and leads to a render before the next prompt.
C6_ToggleParity ==
    /\ pc = "pick_prompt" =>
          /\ rendered = (IF toggles % 2 = 0 THEN show_urls_default
                         ELSE ~show_urls_default)
          /\ renders = lines + 1
    /\ lines > 0 /\ ToggleLine(user_input) =>
          /\ pc \in {"pick_render", "pick_prompt"}
          /\ picked = None
          /\ choice = None

\* After two "u" lines the list was rendered in the original mode again.
C6_Witness ==
    /\ pc = "pick_prompt"
    /\ toggles = 2
    /\ show_urls_default
    /\ rendered = show_urls_default

(***************************************************************************)
(* Claims about the commands, checked under Spec                           *)
(***************************************************************************)

\* C7: in every command that uses the picker the picker is only entered with
\* a non-empty list: nothing is rendered and no line is prompted for while
\* items is empty, the command having failed or stopped before.
C7_PickerEnteredNonEmpty ==
    (pc \in {"pick_render", "pick_prompt"} \/ renders > 0) => Len(items) > 0

\* progress is at the picker's prompt with no item to offer, the page having
\* held entries, and a number was rejected.
C7_Witness ==
    /\ cmd = "progress"
    /\ pc = "pick_prompt"
    /\ Len(data) > 0
    /\ items = <<>>
    /\ lines = 1
    /\ reported = "invalid choice"

\* What C7 states holds of _search_trakt and unwatch, which fail before.
PickerEnteredNonEmptyButProgress ==
    cmd # "progress" => C7_PickerEnteredNonEmpty

\* The places of trace where a key that is not one of allowed was read.
UnrecognizedKeys ==
    {j \in 1..Len(trace) :
        trace[j].ev = "getchar" /\ trace[j].key \notin allowed}

\* C8 as stated: after an empty or unrecognized key the input is reported and
\* the menu is shown and read again, and no search term is prompted for and
\* no search requested before a recognized key was read.
C8_UnrecognizedKeyReadsMenuAgain ==
    /\ \A j \in UnrecognizedKeys :
          /\ Len(trace) > j
          /\ trace[j + 1].ev \in {"No input", "should be one of"}
          /\ IF Len(trace) = j + 1 THEN pc = "search_menu"
             ELSE trace[j + 2].ev = "menu"
    /\ \A i \in 1..Len(trace) :
          trace[i].ev \in {"prompt Search", "request search"} =>
              \E j \in 1..(i - 1) :
                  trace[j].ev = "getchar" /\ trace[j].key \in allowed

\* C8: after an empty or unrecognized key the input is reported, the menu
\* having been shown once and not again, and the key counts as A: the search
\* term is prompted for next and the search is requested for every kind.
C8_UnrecognizedKeyFallsBackToAll ==
    \A j \in UnrecognizedKeys :
        /\ j = 2
        /\ \A i \in 1..Len(trace) : trace[i].ev = "menu" <=> i = 1
        /\ Len(trace) > j
        /\ trace[j + 1].ev = (IF Strip(trace[j].key) = <<>> THEN "No input"
                              ELSE "should be one of")
        /\ pressed = <<"A">>
        /\ media_type = "None"
        /\ IF Len(trace) = j + 1 THEN pc = "search_term"
           ELSE /\ Len(trace) >= j + 3
                /\ trace[j + 2] = [ev |-> "prompt Search", kind |-> "None"]
                /\ trace[j + 3] = [ev |-> "request search", kind |-> "None"]

\* The key X was reported and the search for every kind was requested, its
\* results being at the picker.
C8_Witness ==
    /\ Len(trace) = 5
    /\ trace[2] = [ev |-> "getchar", key |-> <<"X">>]
    /\ trace[3].ev = "should be one of"
    /\ trace[5] = [ev |-> "request search", kind |-> "None"]
    /\ pc = "pick_prompt"

(***************************************************************************)
(* Claims about the bodies of the commands, checked under Spec             *)
(***************************************************************************)

\* The places of trace of the calls that change the account.
MutatingCalls == {i \in 1..Len(trace) : trace[i].ev \in MutatingEvents}

\* The places of trace where the question was asked.
Asked(text) ==
    {i \in 1..Len(trace) : trace[i].ev = "confirm" /\ trace[i].text = text}

\* The places of trace where the question was given the answer.
Answered(text, answer) == {i \in Asked(text) : trace[i].answer = answer}

\* The messages progress prints before it returns for want of progress.
NoProgressMessages ==
    {"Didn't find any progress", "No progress found", "No next episode found"}

\* The command ended by one of the messages of NoProgressMessages.
EndedNoProgress ==
    /\ pc = "done"
    /\ outcome = "returned"
    /\ trace # <<>>
    /\ trace[Len(trace)].ev \in NoProgressMessages

\* The watched-progress response has no next_episode or a null one.
NoNextEpisode ==
    /\ cmd = "progress"
    /\ next_data # None
    /\ next_data.shape \in {"empty", "no_next", "null"}

\* C12: in progress, when the watched-progress response lacks next_episode
\* or has it null, the command ends by a NoProgress message and a return,
\* no confirmation having been asked and no mark-as-seen call issued.
C12_NoNextEpisodeEndsNoProgress ==
    NoNextEpisode =>
        /\ EndedNoProgress
        /\ Asked("Mark as watched?") = {}
        /\ MutatingCalls = {}

\* A response that holds fields but no next_episode ended progress by the
\* failed assertion of line 688.
C12_Witness ==
    /\ NoNextEpisode
    /\ next_data.shape = "no_next"
    /\ pc = "done"
    /\ outcome = "AssertionError"
    /\ trace[Len(trace)].ev = "request progress"

\* What holds of every response without a next episode: the command is over
\* with no confirmation and no mutating call, by the message and a return
\* but for the response that holds other fields, which fails the assertion.
NoNextEpisodeEndsUnmarked ==
    NoNextEpisode =>
        /\ pc = "done"
        /\ Asked("Mark as watched?") = {}
        /\ MutatingCalls = {}
        /\ IF next_data.shape = "no_next" THEN outcome = "AssertionError"
           ELSE EndedNoProgress

\* The run ended in NoResults, NoProgress or MalformedReference.
EndedInFailure ==
    /\ pc = "done"
    /\ \/ outcome = "ClickException"
       \/ EndedNoProgress
       \/ outcome = "ValueError"
       \/ outcome = "AssertionError"

\* How often the request was issued.
Requests(name) == Cardinality({i \in 1..Len(trace) : trace[i].ev = name})

\* C13: a run that ends in NoResults, NoProgress or MalformedReference has a
\* non-zero exit status, and none of its requests was issued again.
C13_FailuresExitNonZero ==
    EndedInFailure =>
        /\ ExitStatus(outcome) # 0
        /\ Requests("request search") <= 1
        /\ Requests("request history") <= 1
        /\ Requests("request progress") <= 1

\* progress found no next episode for the picked show and returned, which is
\* exit status 0.
C13_Witness ==
    /\ cmd = "progress"
    /\ EndedNoProgress
    /\ trace[Len(trace)].ev = "No next episode found"
    /\ ExitStatus(outcome) = 0

\* What holds of the failures: the exception of an empty search, of a bad
\* URL and of a failed assertion gives a non-zero exit status, the NoProgress
\* messages come with exit status 0, and nothing is requested again.
FailuresExitStatus ==
    EndedInFailure =>
        /\ ExitStatus(outcome) = (IF EndedNoProgress THEN 0 ELSE 1)
        /\ Requests("request search") <= 1
        /\ Requests("request history") <= 1
        /\ Requests("request progress") <= 1

InRange(ep) == ep.season >= 0 /\ ep.episode >= 1

\* C14: every EpisodeId the program constructs, and every one it hands to a
\* mutating call, has season >= 0 and episode >= 1.
C14_EpisodeNumbersInRange ==
    /\ inp.kind = "EpisodeId" => InRange(inp)
    /\ \A i \in MutatingCalls :
          (trace[i].ev # "call remove" /\ trace[i].inp.kind = "EpisodeId")
              => InRange(trace[i].inp)

\* watch --url .../seasons/-1/episodes/0 marked season -1, episode 0 as seen.
C14_Witness ==
    /\ cmd = "watch"
    /\ opts.has_url
    /\ pc = "done"
    /\ outcome = "returned"
    /\ inp = EpisodeId(<<"y">>, 0 - 1, 0)
    /\ \E i \in MutatingCalls : trace[i] = MarkAsSeen(inp, TRUE)

\* C15: in progress, once the confirmation of the next episode was declined
\* the command has returned, with exit status 0, and no mutating call was
\* issued in the run.
C15_DeclineEndsWithoutMutation ==
    (cmd = "progress" /\ Answered("Mark as watched?", FALSE) # {}) =>
        /\ pc = "done"
        /\ outcome = "returned"
        /\ ExitStatus(outcome) = 0
        /\ trace[Len(trace)] = Confirm("Mark as watched?", FALSE)
        /\ MutatingCalls = {}

\* The next episode S1E2 of the picked show was offered and declined.
C15_Witness ==
    /\ cmd = "progress"
    /\ next_data # None
    /\ next_data.shape = "next"
    /\ next_data.number = 2
    /\ Answered("Mark as watched?", FALSE) # {}
    /\ pc = "done"

\* A run of _mark_watched, _rate_input or the removal of unwatch completed.
ActionCompleted ==
    /\ pc = "done"
    /\ outcome = "returned"
    /\ \/ cmd \in {"watch", "rate", "unwatch"}
       \/ cmd = "progress" /\ Answered("Mark as watched?", TRUE) # {}

\* C16 as stated: a completed run of _mark_watched, _rate_input or the
\* removal of unwatch issued exactly one mutating call.
C16_ExactlyOneMutatingCall ==
    ActionCompleted => Cardinality(MutatingCalls) = 1

\* The rating of a marked movie was wanted.
RatingWanted == opts.rating.given \/ Answered("Set rating?", TRUE) # {}

\* C16 amended: a completed run of _rate_input and of the removal issued
\* exactly one mutating call, and so did _mark_watched for an episode; for a
\* movie it issued mark_as_seen and then, if a rating was given or wanted,
\* rate, two calls; for a show it issued mark_as_seen if the question was
\* answered yes and no call otherwise.
C16_MutatingCallsPerVariant ==
    ActionCompleted =>
        LET n == Cardinality(MutatingCalls)
            first == CHOOSE i \in MutatingCalls : \A j \in MutatingCalls : i <= j
            last == CHOOSE i \in MutatingCalls : \A j \in MutatingCalls : j <= i
        IN  IF cmd = "rate"
            THEN n = 1 /\ trace[first] = RateCall(inp, opts.rating.value, TRUE)
            ELSE IF cmd = "unwatch"
            THEN n = 1 /\ trace[first] = RemoveCall(picked.history_id, TRUE)
            ELSE IF inp.kind = "EpisodeId"
            THEN n = 1 /\ trace[first] = MarkAsSeen(inp, TRUE)
            ELSE IF inp.kind = "MovieId"
            THEN /\ n = (IF RatingWanted THEN 2 ELSE 1)
                 /\ trace[first] = MarkAsSeen(inp, TRUE)
                 /\ RatingWanted => trace[last].ev = "call rate"
            ELSE /\ Asked("Really mark entire show as watched?") # {}
                 /\ IF Answered("Really mark entire show as watched?", TRUE) # {}
                    THEN n = 1 /\ trace[first] = MarkAsSeen(inp, TRUE)
                    ELSE n = 0

\* watch of a movie with --rating 7 issued mark_as_seen and rate.
C16_Witness ==
    /\ cmd = "watch"
    /\ ActionCompleted
    /\ inp.kind = "MovieId"
    /\ opts.rating = Rating(7)
    /\ Cardinality(MutatingCalls) = 2

\* watch of a show ended with no call, the question answered no.
ShowDeclined ==
    /\ cmd = "watch"
    /\ ActionCompleted
    /\ inp.kind = "TVShowId"
    /\ MutatingCalls = {}

\* C17: in watch every rate call comes after the mark_as_seen call of the
\* same input has returned; with no --rating it comes right after the Rating
\* prompt, which follows the question answered yes, and carries the number
\* entered there; with --rating it carries that number.
C17_RateAfterMarkAndPrompt ==
    cmd = "watch" =>
        \A i \in 1..Len(trace) :
            trace[i].ev = "call rate" =>
                /\ \E j \in 1..(i - 1) : trace[j] = MarkAsSeen(trace[i].inp, TRUE)
                /\ IF opts.rating.given
                   THEN trace[i].rating = opts.rating.value
                   ELSE /\ i > 2
                        /\ trace[i - 1] = Prompt("Rating", trace[i].rating)
                        /\ trace[i - 2] = Confirm("Set rating?", TRUE)

\* With no --rating the question was answered yes, 8 entered and sent.
C17_Witness ==
    /\ cmd = "watch"
    /\ opts.rating = NoRating
    /\ pc = "done"
    /\ Len(trace) > 3
    /\ trace[Len(trace) - 2] = Prompt("Rating", 8)
    /\ trace[Len(trace) - 1] = RateCall(inp, 8, TRUE)

\* C18: once n or q was entered at a picker prompt the picker is left by
\* click.Abort and the command ends with it, exit status 1, no mutating call
\* being issued anywhere in the run.
C18_CancelEndsWithoutMutation ==
    (lines > 0 /\ CancelLine(user_input)) =>
        /\ pc \in {"pick_aborted", "done"}
        /\ pc = "done" => outcome = "Abort" /\ ExitStatus(outcome) = 1
        /\ MutatingCalls = {}

\* unwatch was cancelled at the second prompt of its picker.
C18_Witness ==
    /\ cmd = "unwatch"
    /\ lines = 2
    /\ CancelLine(user_input)
    /\ pc = "done"
    /\ outcome = "Abort"

\* The places of trace of the mutating calls that did not return.
FailedCalls == {i \in MutatingCalls : ~trace[i].ok}

\* C19: a mutating call that did not return is the last thing of the run:
\* the same call was not issued before it and nothing is requested or called
\* after it, the command having ended with the exception.
C19_FailedCallEndsRun ==
    \A i \in FailedCalls :
        /\ i = Len(trace)
        /\ \A j \in 1..(i - 1) : trace[j].ev # trace[i].ev
        /\ pc = "done"
        /\ outcome = "TransportError"
        /\ ExitStatus(outcome) # 0

\* watch marked a movie and the rate call of --rating 7 did not return.
C19_Witness ==
    /\ cmd = "watch"
    /\ opts.rating = Rating(7)
    /\ Len(trace) > 1
    /\ trace[Len(trace) - 1] = MarkAsSeen(inp, TRUE)
    /\ trace[Len(trace)] = RateCall(inp, 7, FALSE)
    /\ outcome = "TransportError"

\* _search_trakt returned from a search, not from the Url prompt.
SearchReturned ==
    /\ pc = "resolved"
    /\ cmd \in {"watch", "rate", "letterboxd"}
    /\ ~opts.has_url
    /\ pressed # <<"U">>

\* C20: _search_trakt with the key I returns the EpisodeId of the id the
\* picked result's path resolves to and of the season and episode entered at
\* the two prompts; with every other key it returns what
\* _parse_url_to_input returns for the picked result's path.
C20_SearchReturnsResolvedPick ==
    SearchReturned =>
        LET resolved == ParseUrlToInput(UrlPrefix \o kSlash \o picked.ext)
            n == Len(trace)
        IN  IF pressed = <<"I">>
            THEN /\ trace[n - 1].ev = "prompt" /\ trace[n - 1].text = "Season"
                 /\ trace[n].ev = "prompt" /\ trace[n].text = "Episode"
                 /\ resolved.kind = "TVShowId"
                 /\ inp = EpisodeId(resolved.id, trace[n - 1].value,
                                    trace[n].value)
            ELSE inp = resolved

\* With I the show y was picked, and 3 and 0 entered for season and episode.
C20_Witness ==
    /\ SearchReturned
    /\ pressed = <<"I">>
    /\ picked = ShowResult
    /\ inp = EpisodeId(<<"y">>, 3, 0)

\* The places of trace of the rate calls.
RateCalls == {i \in 1..Len(trace) : trace[i].ev = "call rate"}

\* C21: every rate call, of rate and of watch, carries a rating of 1..10.
C21_RatingsInRange ==
    \A i \in RateCalls : trace[i].rating \in 1..10

\* watch with no --rating sent the 0 entered at the Rating prompt for a movie.
C21_Witness ==
    /\ cmd = "watch"
    /\ opts.rating = NoRating
    /\ inp.kind = "MovieId"
    /\ pc = "done"
    /\ outcome = "returned"
    /\ \E i \in RateCalls :
          /\ trace[i] = RateCall(inp, 0, TRUE)
          /\ trace[i - 1] = Prompt("Rating", 0)

\* What holds of the rate calls: a rating given with --rating is of 1..10,
\* one entered at the prompt is sent as entered.
RatingsGivenInRange ==
    \A i \in RateCalls :
        IF opts.rating.given THEN trace[i].rating \in 1..10
        ELSE trace[i - 1] = Prompt("Rating", trace[i].rating)

\* The places of trace of the mark_as_seen calls of progress.
ProgressMarks ==
    {i \in 1..Len(trace) : cmd = "progress" /\ trace[i].ev = "call mark_as_seen"}

\* The watched progress was requested for the picked entry's show.
QueriedPickedShow ==
    \E j \in 1..Len(trace) :
        trace[j] = [ev |-> "request progress", show |-> picked.show]

\* C22: in progress the EpisodeId marked as seen is of the show whose watched
\* progress was requested: its id is the picked entry's show slug, whether
\* or not the entry's episode has a slug of its own, and its season and
\* episode are the numbers of the next_episode returned.
C22_MarksNextOfPickedShow ==
    \A i \in ProgressMarks :
        /\ QueriedPickedShow
        /\ trace[i].inp = EpisodeId(picked.show_slug, next_data.season,
                                    next_data.number)

\* The picked entry of show w has an episode slug e, and S1E2 of "e" was
\* marked as seen.
C22_Witness ==
    /\ cmd = "progress"
    /\ pc = "done"
    /\ outcome = "returned"
    /\ picked # None
    /\ picked.show_slug = <<"w">>
    /\ picked.ep_slug = <<"e">>
    /\ \E i \in ProgressMarks : trace[i] = MarkAsSeen(EpisodeId(<<"e">>, 1, 2), TRUE)

\* What holds of the marked EpisodeId: its id is the episode's own slug if
\* it has one and the show's slug otherwise, its numbers are those returned.
MarksNextOfSlug ==
    \A i \in ProgressMarks :
        /\ QueriedPickedShow
        /\ trace[i].inp = EpisodeId(NextShowSlug(picked), next_data.season,
                                    next_data.number)
        /\ picked.ep_slug = <<>> => trace[i].inp.id = picked.show_slug

\* The places of trace of the removal requests.
Removals == {i \in 1..Len(trace) : trace[i].ev = "call remove"}

\* The entry unwatch is to remove: the one picked in interactive mode, the
\* first of the page otherwise.
ToRemove == IF opts.interactive THEN items[choice] ELSE data[1]

\* C23: unwatch issues at most one removal request; it carries exactly one
\* history id, that of the entry picked in interactive mode and of the first
\* entry of the page otherwise, and it comes right after the confirmation
\* answered yes unless --yes was given; after a refusal there is none.
C23_RemovesWhatWasPickedAndConfirmed ==
    cmd = "unwatch" =>
        /\ Cardinality(Removals) <= 1
        /\ \A i \in Removals :
              /\ Len(trace[i].ids) = 1
              /\ trace[i].ids[1] = ToRemove.history_id
              /\ IF opts.yes THEN Asked("Remove from history?") = {}
                 ELSE i > 1 /\ trace[i - 1] = Confirm("Remove from history?", TRUE)
        /\ Answered("Remove from history?", FALSE) # {} =>
              /\ Removals = {}
              /\ pc = "done"
              /\ outcome = "Abort"

\* In interactive mode the second entry of the page was picked, the removal
\* confirmed and the entry of history id 2 removed.
C23_Witness ==
    /\ cmd = "unwatch"
    /\ opts.interactive
    /\ ~opts.yes
    /\ pc = "done"
    /\ outcome = "returned"
    /\ Len(data) = 2
    /\ picked = data[2]
    /\ \E i \in Removals : trace[i] = RemoveCall(2, TRUE)

\* The removal was refused and the command aborted with nothing removed.
RemovalRefused ==
    /\ cmd = "unwatch"
    /\ Answered("Remove from history?", FALSE) # {}
    /\ Removals = {}
    /\ outcome = "Abort"

====
